---- MODULE Spec2Model ----
(***************************************************************************)
(* Model of convert2rhel/backup/__init__.py: the BackupController journal  *)
(* (push / pop / pop_all / pop_to_partition over RestorableChange objects  *)
(* and the partition sentinel) and the package removal engine              *)
(* (remove_pkgs with ChangedRPMPackagesController).                        *)
(***************************************************************************)
EXTENDS Integers, Sequences, FiniteSets, TLC

VARIABLES
    restorables,    \* BackupController._restorables, bottom first
    enabled,        \* RestorableChange.enabled of every object
    last,           \* history: the record of the latest BackupController call
    prev,           \* history: the call before it, in brief
    popBase,        \* history: the journal when the current run of pop() calls began
    popRets,        \* history: what the pop() calls of that run returned, oldest first
    installed_pkgs, \* ChangedRPMPackagesController.installed_pkgs
    removed_pkgs,   \* ChangedRPMPackagesController.removed_pkgs (RestorablePackage records)
    pkgcall,        \* the frame of the running (or just finished) package-engine call
    running,        \* the actions the orchestrator has started and not yet finished
    completed,      \* the ids of the actions that have run, in the order they finished
    last_run        \* what the latest run() of an action was given and what it did

vars == <<restorables, enabled, last, prev, popBase, popRets, installed_pkgs, removed_pkgs, pkgcall,
          running, completed, last_run>>
bcvars == <<restorables, enabled, last, prev, popBase, popRets>>
pkgvars == <<installed_pkgs, removed_pkgs, pkgcall>>
actvars == <<running, completed, last_run>>

(***************************************************************************)
(* Bounds                                                                  *)
(***************************************************************************)
\* longest journal the BackupController is driven to
MaxLen == 3

\* longest package list handed to remove_pkgs()
MaxPkgs == 2

\* most RestorablePackage entries the package controller is driven to track
MaxTracked == 2

(***************************************************************************)
(* Values                                                                  *)
(***************************************************************************)
\* BackupController.partition, the sentinel object
partition == "partition"

\* instances of (subclasses of) RestorableChange
RestorableChange == {"r1", "r2"}

\* a value that is neither the sentinel nor a RestorableChange
NonRestorable == {"junk"}

PushValues == {partition} \cup RestorableChange \cup NonRestorable

\* how a call of the abstract enable() / restore() can end
Outcomes == {"ok", "Exception", "SystemExit"}

\* catching Exception alone
PopAllCaughtExceptionOnly == {"Exception"}

\* the exception classes pop_all() catches around restore()
PopAllCaught == {"Exception", "SystemExit"}

(***************************************************************************)
(* Sequence helpers                                                        *)
(***************************************************************************)
Front(s) == SubSeq(s, 1, Len(s) - 1)

Last(s) == s[Len(s)]

\* the elements of seq, as a set
Range(seq) == {seq[i] : i \in 1..Len(seq)}

RECURSIVE Reverse(_)
Reverse(s) == IF s = <<>> THEN <<>> ELSE Append(Reverse(Tail(s)), Head(s))

IsReal(x) == x # partition

\* the non-marker entries of a journal, in push order
Reals(s) == SelectSeq(s, IsReal)

(***************************************************************************)
(* RestorableChange (abstract enable / restore)                            *)
(***************************************************************************)
\* RestorableChange.enable(): sets enabled when it returns normally
EnableEffect(en, r, out) == IF out = "ok" THEN [en EXCEPT ![r] = TRUE] ELSE en

\* RestorableChange.restore(): clears enabled when it returns normally
RestoreEffect(en, r, out) == IF out = "ok" THEN [en EXCEPT ![r] = FALSE] ELSE en

\* the effect of a sequence of restore() calls, oldest call first
RECURSIVE ApplyRestores(_, _)
ApplyRestores(en, calls) ==
    IF calls = <<>> THEN en
    ELSE ApplyRestores(RestoreEffect(en, Head(calls).obj, Head(calls).outcome), Tail(calls))

(***************************************************************************)
(* BackupController.push                                                   *)
(***************************************************************************)
\* push() without the partition bypass: the marker meets the type check
PushResultNoPartitionBypass(stack, x, out) ==
    IF x \notin RestorableChange
    THEN [stack |-> stack, enables |-> <<>>, raised |-> "TypeError"]
    ELSE IF out # "ok"
    THEN [stack |-> stack, enables |-> <<[obj |-> x, outcome |-> out]>>, raised |-> out]
    ELSE [stack |-> Append(stack, x), enables |-> <<[obj |-> x, outcome |-> out]>>,
          raised |-> "none"]

\* push() without the type check: whatever is not a RestorableChange is
\* stored the way the marker is
PushResultNoTypeCheck(stack, x, out) ==
    IF x \notin RestorableChange
    THEN [stack |-> Append(stack, x), enables |-> <<>>, raised |-> "none"]
    ELSE IF out # "ok"
    THEN [stack |-> stack, enables |-> <<[obj |-> x, outcome |-> out]>>, raised |-> out]
    ELSE [stack |-> Append(stack, x), enables |-> <<[obj |-> x, outcome |-> out]>>,
          raised |-> "none"]

\* push() that appends before it calls enable(): the object stays in the journal
\* when enable() raises
PushResultAppendsFirst(stack, x, out) ==
    IF x = partition
    THEN [stack |-> Append(stack, x), enables |-> <<>>, raised |-> "none"]
    ELSE IF x \notin RestorableChange
    THEN [stack |-> stack, enables |-> <<>>, raised |-> "TypeError"]
    ELSE [stack |-> Append(stack, x), enables |-> <<[obj |-> x, outcome |-> out]>>,
          raised |-> IF out # "ok" THEN out ELSE "none"]

\* push() that passes over an object the journal already holds
PushResultDeduplicates(stack, x, out) ==
    IF x = partition
    THEN [stack |-> Append(stack, x), enables |-> <<>>, raised |-> "none"]
    ELSE IF x \notin RestorableChange
    THEN [stack |-> stack, enables |-> <<>>, raised |-> "TypeError"]
    ELSE IF \E i \in 1..Len(stack) : stack[i] = x
    THEN [stack |-> stack, enables |-> <<>>, raised |-> "none"]
    ELSE IF out # "ok"
    THEN [stack |-> stack, enables |-> <<[obj |-> x, outcome |-> out]>>, raised |-> out]
    ELSE [stack |-> Append(stack, x), enables |-> <<[obj |-> x, outcome |-> out]>>,
          raised |-> "none"]

\* push(restorable), where enable() ends as `out`
PushResult(stack, x, out) ==
    IF x = partition
    THEN [stack |-> Append(stack, x), enables |-> <<>>, raised |-> "none"]
    ELSE IF x \notin RestorableChange
    THEN [stack |-> stack, enables |-> <<>>, raised |-> "TypeError"]
    ELSE IF out # "ok"
    THEN [stack |-> stack, enables |-> <<[obj |-> x, outcome |-> out]>>, raised |-> out]
    ELSE [stack |-> Append(stack, x), enables |-> <<[obj |-> x, outcome |-> out]>>,
          raised |-> "none"]

(***************************************************************************)
(* BackupController.pop                                                    *)
(***************************************************************************)
\* pop() taking the oldest entry (list.pop(0)) instead of the newest
RECURSIVE PopResultOldest(_, _)
PopResultOldest(stack, out) ==
    IF stack = <<>>
    THEN [stack |-> stack, restores |-> <<>>, ret |-> <<>>, raised |-> "IndexError"]
    ELSE LET restorable == Head(stack)
             rest == Tail(stack)
         IN  IF restorable = partition
             THEN PopResultOldest(rest, out)
             ELSE IF out # "ok"
             THEN [stack |-> rest, restores |-> <<[obj |-> restorable, outcome |-> out]>>,
                   ret |-> <<>>, raised |-> out]
             ELSE [stack |-> rest, restores |-> <<[obj |-> restorable, outcome |-> out]>>,
                   ret |-> <<restorable>>, raised |-> "none"]

\* pop() that looks for a real entry before it touches the journal, as pop_all() does
RECURSIVE PopResultChecksUpFront(_, _)
PopResultChecksUpFront(stack, out) ==
    IF stack = <<>> \/ \A i \in 1..Len(stack) : stack[i] = partition
    THEN [stack |-> stack, restores |-> <<>>, ret |-> <<>>, raised |-> "IndexError"]
    ELSE LET restorable == Last(stack)
             rest == Front(stack)
         IN  IF restorable = partition
             THEN PopResultChecksUpFront(rest, out)
             ELSE IF out # "ok"
             THEN [stack |-> rest, restores |-> <<[obj |-> restorable, outcome |-> out]>>,
                   ret |-> <<>>, raised |-> out]
             ELSE [stack |-> rest, restores |-> <<[obj |-> restorable, outcome |-> out]>>,
                   ret |-> <<restorable>>, raised |-> "none"]

\* pop() that catches what restore() raises, as pop_all() does
RECURSIVE PopResultIsolates(_, _)
PopResultIsolates(stack, out) ==
    IF stack = <<>>
    THEN [stack |-> stack, restores |-> <<>>, ret |-> <<>>, raised |-> "IndexError"]
    ELSE LET restorable == Last(stack)
             rest == Front(stack)
         IN  IF restorable = partition
             THEN PopResultIsolates(rest, out)
             ELSE [stack |-> rest, restores |-> <<[obj |-> restorable, outcome |-> out]>>,
                   ret |-> <<restorable>>, raised |-> "none"]

\* pop(), where restore() of the entry it finds ends as `out`
RECURSIVE PopResult(_, _)
PopResult(stack, out) ==
    IF stack = <<>>
    THEN [stack |-> stack, restores |-> <<>>, ret |-> <<>>, raised |-> "IndexError"]
    ELSE LET restorable == Last(stack)
             rest == Front(stack)
         IN  IF restorable = partition
             THEN PopResult(rest, out)
             ELSE IF out # "ok"
             THEN [stack |-> rest, restores |-> <<[obj |-> restorable, outcome |-> out]>>,
                   ret |-> <<>>, raised |-> out]
             ELSE [stack |-> rest, restores |-> <<[obj |-> restorable, outcome |-> out]>>,
                   ret |-> <<restorable>>, raised |-> "none"]

(***************************************************************************)
(* BackupController.pop_all                                                *)
(***************************************************************************)
\* the loop of pop_all() walking the journal oldest entry first
RECURSIVE PopAllLoopFifo(_, _, _, _, _, _)
PopAllLoopFifo(stack, processed, calls, warnings, honor, outs) ==
    IF stack = <<>>
    THEN [stack |-> stack, restores |-> calls, warnings |-> warnings,
          ret |-> processed, raised |-> "none"]
    ELSE LET restorable == Head(stack)
             rest == Tail(stack)
             out == outs[Len(stack)]
             call == [obj |-> restorable, outcome |-> out]
         IN  IF restorable = partition
             THEN IF honor
                  THEN [stack |-> rest, restores |-> calls, warnings |-> warnings,
                        ret |-> <<>>, raised |-> "none"]
                  ELSE PopAllLoopFifo(rest, processed, calls, warnings, honor, outs)
             ELSE IF out = "ok"
             THEN PopAllLoopFifo(rest, Append(processed, restorable), Append(calls, call),
                                 warnings, honor, outs)
             ELSE IF out \in PopAllCaught
             THEN PopAllLoopFifo(rest, Append(processed, restorable), Append(calls, call),
                                 warnings + 1, honor, outs)
             ELSE [stack |-> rest, restores |-> Append(calls, call), warnings |-> warnings,
                   ret |-> <<>>, raised |-> out]

\* the loop of pop_all() returning what it has processed when it stops at a marker
RECURSIVE PopAllLoopKeepsProcessed(_, _, _, _, _, _)
PopAllLoopKeepsProcessed(stack, processed, calls, warnings, honor, outs) ==
    IF stack = <<>>
    THEN [stack |-> stack, restores |-> calls, warnings |-> warnings,
          ret |-> processed, raised |-> "none"]
    ELSE LET restorable == Last(stack)
             rest == Front(stack)
             out == outs[Len(stack)]
             call == [obj |-> restorable, outcome |-> out]
         IN  IF restorable = partition
             THEN IF honor
                  THEN [stack |-> rest, restores |-> calls, warnings |-> warnings,
                        ret |-> processed, raised |-> "none"]
                  ELSE PopAllLoopKeepsProcessed(rest, processed, calls, warnings, honor, outs)
             ELSE IF out = "ok"
             THEN PopAllLoopKeepsProcessed(rest, Append(processed, restorable),
                                           Append(calls, call), warnings, honor, outs)
             ELSE IF out \in PopAllCaught
             THEN PopAllLoopKeepsProcessed(rest, Append(processed, restorable),
                                           Append(calls, call), warnings + 1, honor, outs)
             ELSE [stack |-> rest, restores |-> Append(calls, call), warnings |-> warnings,
                   ret |-> <<>>, raised |-> out]

\* the loop of pop_all() with the append inside the try block: an entry whose
\* restore() raised is not among the processed ones
RECURSIVE PopAllLoopDropsFailed(_, _, _, _, _, _)
PopAllLoopDropsFailed(stack, processed, calls, warnings, honor, outs) ==
    IF stack = <<>>
    THEN [stack |-> stack, restores |-> calls, warnings |-> warnings,
          ret |-> processed, raised |-> "none"]
    ELSE LET restorable == Last(stack)
             rest == Front(stack)
             out == outs[Len(stack)]
             call == [obj |-> restorable, outcome |-> out]
         IN  IF restorable = partition
             THEN IF honor
                  THEN [stack |-> rest, restores |-> calls, warnings |-> warnings,
                        ret |-> <<>>, raised |-> "none"]
                  ELSE PopAllLoopDropsFailed(rest, processed, calls, warnings, honor, outs)
             ELSE IF out = "ok"
             THEN PopAllLoopDropsFailed(rest, Append(processed, restorable),
                                        Append(calls, call), warnings, honor, outs)
             ELSE IF out \in PopAllCaught
             THEN PopAllLoopDropsFailed(rest, processed, Append(calls, call),
                                        warnings + 1, honor, outs)
             ELSE [stack |-> rest, restores |-> Append(calls, call), warnings |-> warnings,
                   ret |-> <<>>, raised |-> out]

\* the `while True` loop of pop_all(); outs[i] is how restore() of the entry
\* at position i of the journal ends
RECURSIVE PopAllLoop(_, _, _, _, _, _)
PopAllLoop(stack, processed, calls, warnings, honor, outs) ==
    IF stack = <<>>
    THEN [stack |-> stack, restores |-> calls, warnings |-> warnings,
          ret |-> processed, raised |-> "none"]
    ELSE LET restorable == Last(stack)
             rest == Front(stack)
             out == outs[Len(stack)]
             call == [obj |-> restorable, outcome |-> out]
         IN  IF restorable = partition
             THEN IF honor
                  THEN [stack |-> rest, restores |-> calls, warnings |-> warnings,
                        ret |-> <<>>, raised |-> "none"]
                  ELSE PopAllLoop(rest, processed, calls, warnings, honor, outs)
             ELSE IF out = "ok"
             THEN PopAllLoop(rest, Append(processed, restorable), Append(calls, call),
                             warnings, honor, outs)
             ELSE IF out \in PopAllCaught
             THEN PopAllLoop(rest, Append(processed, restorable), Append(calls, call),
                             warnings + 1, honor, outs)
             ELSE [stack |-> rest, restores |-> Append(calls, call), warnings |-> warnings,
                   ret |-> <<>>, raised |-> out]

\* the emptiness test without the look at the markers
NoBackupsEmptyOnly(stack) == stack = <<>>

\* the emptiness test that opens pop_all()
NoBackups(stack) == stack = <<>> \/ \A i \in 1..Len(stack) : stack[i] = partition

\* pop_all() that stops at a marker whatever _honor_partitions says
PopAllResultAlwaysHonor(stack, honor, outs) ==
    IF stack = <<>> \/ \A i \in 1..Len(stack) : stack[i] = partition
    THEN [stack |-> stack, restores |-> <<>>, warnings |-> 0, ret |-> <<>>,
          raised |-> "IndexError"]
    ELSE PopAllLoop(stack, <<>>, <<>>, 0, TRUE, outs)

\* pop_all(_honor_partitions = honor)
PopAllResult(stack, honor, outs) ==
    IF NoBackups(stack)
    THEN [stack |-> stack, restores |-> <<>>, warnings |-> 0, ret |-> <<>>,
          raised |-> "IndexError"]
    ELSE PopAllLoop(stack, <<>>, <<>>, 0, honor, outs)

(***************************************************************************)
(* BackupController.pop_to_partition                                       *)
(***************************************************************************)
\* pop_to_partition() calling pop_all() without _honor_partitions
PopToPartitionResultNoHonor(stack, outs) ==
    [PopAllResult(stack, FALSE, outs) EXCEPT !.ret = <<>>]

\* pop_to_partition() that insists on a marker: without one it fails and restores
\* nothing
PopToPartitionResultNeedsMarker(stack, outs) ==
    IF \E i \in 1..Len(stack) : stack[i] = partition
    THEN [PopAllResult(stack, TRUE, outs) EXCEPT !.ret = <<>>]
    ELSE [stack |-> stack, restores |-> <<>>, warnings |-> 0, ret |-> <<>>,
          raised |-> "IndexError"]

\* pop_to_partition(): pop_all(_honor_partitions=True), its value dropped
PopToPartitionResult(stack, outs) == [PopAllResult(stack, TRUE, outs) EXCEPT !.ret = <<>>]

(***************************************************************************)
(* Package identifiers and remove_epoch_from_yum_nevra_notation            *)
(***************************************************************************)
Digits == {"0", "1", "2", "3", "4", "5", "6", "7", "8", "9"}

\* package identifiers (NEVRA strings), as sequences of characters:
\* yum notation with an epoch, no epoch, dnf notation with an epoch
Pkgs == {<<"7", ":", "a", "-", "1">>, <<"b", "-", "2">>, <<"c", "-", "8", ":", "3">>}

\* number of characters the leading \d+ of the pattern matches
RECURSIVE LeadingDigits(_)
LeadingDigits(str) ==
    IF str # <<>> /\ Head(str) \in Digits THEN 1 + LeadingDigits(Tail(str)) ELSE 0

\* the pattern without its ^ anchor: the first run of digits before a colon,
\* wherever it stands, and everything before it, are cut off
EpochMatchAt(str) ==
    LET n == LeadingDigits(str)
    IN  n >= 1 /\ n < Len(str) /\ str[n + 1] = ":"

RECURSIVE EpochMatchAnywhere(_)
EpochMatchAnywhere(str) ==
    str # <<>> /\ (EpochMatchAt(str) \/ EpochMatchAnywhere(Tail(str)))

RECURSIVE CutAtFirstEpoch(_)
CutAtFirstEpoch(str) ==
    IF EpochMatchAt(str)
    THEN SubSeq(str, LeadingDigits(str) + 2, Len(str))
    ELSE CutAtFirstEpoch(Tail(str))

RemoveEpochUnanchored(package_nevra) ==
    IF EpochMatchAnywhere(package_nevra) THEN CutAtFirstEpoch(package_nevra) ELSE package_nevra

\* re.search(r"^\d+:(.*)", package_nevra): group(1) when it matches, else the argument
remove_epoch_from_yum_nevra_notation(package_nevra) ==
    LET n == LeadingDigits(package_nevra)
    IN  IF n >= 1 /\ n < Len(package_nevra) /\ package_nevra[n + 1] = ":"
        THEN SubSeq(package_nevra, n + 2, Len(package_nevra))
        ELSE package_nevra

(***************************************************************************)
(* RestorablePackage                                                       *)
(***************************************************************************)
\* utils.BACKUP_DIR
BACKUP_DIR == "BACKUP_DIR"

\* repo.get_hardcoded_repofiles_dir()
HardcodedRepofilesDir == "hardcoded_repofiles"

\* values of the reposdir argument: None (the empty sequence) or a directory
ReposdirArgs == {<<>>, <<"custom_reposdir">>}

\* what the host-facts provider (system_info) can report
SystemInfos ==
    [eus_system : BOOLEAN, id : {"centos", "oracle"}, has_internet_access : BOOLEAN]

\* what os.path.isdir(BACKUP_DIR) and download_pkg() can answer for one package:
\* no directory, a download that yields no file, a downloaded file
DownloadAnswers == {"nodir", "none", "file"}

Event(kind, arg, reposdir) == [kind |-> kind, arg |-> arg, reposdir |-> reposdir]

\* a backup() that takes the hardcoded repository files on every EUS system, whatever
\* its distribution
RestorablePackageBackupAnyEus(pkgname, reposdir, system_info, answer) ==
    IF answer # "nodir"
    THEN LET rd == IF system_info.eus_system THEN <<HardcodedRepofilesDir>> ELSE reposdir
             passed == IF ~system_info.has_internet_access THEN <<>> ELSE rd
             path == IF answer = "file"
                     THEN <<[dir |-> BACKUP_DIR, file |-> pkgname, ext |-> ".rpm"]>>
                     ELSE <<>>
         IN  [path |-> path, events |-> <<Event("download_pkg", pkgname, passed)>>]
    ELSE [path |-> <<>>, events |-> <<Event("warning", pkgname, <<>>)>>]

\* RestorablePackage(pkgname).backup(reposdir): the path it ends with and what it did
RestorablePackageBackup(pkgname, reposdir, system_info, answer) ==
    IF answer # "nodir"
    THEN LET rd == IF system_info.eus_system /\ system_info.id = "centos"
                   THEN <<HardcodedRepofilesDir>>
                   ELSE reposdir
             passed == IF ~system_info.has_internet_access THEN <<>> ELSE rd
             path == IF answer = "file"
                     THEN <<[dir |-> BACKUP_DIR, file |-> pkgname, ext |-> ".rpm"]>>
                     ELSE <<>>
         IN  [path |-> path, events |-> <<Event("download_pkg", pkgname, passed)>>]
    ELSE [path |-> <<>>, events |-> <<Event("warning", pkgname, <<>>)>>]

\* a backup_and_track_removed_pkg() that tracks only what it could back up
BackupAndTrackOnlyBackedUp(tracked, pkg, reposdir, system_info, answer) ==
    LET b == RestorablePackageBackup(pkg, reposdir, system_info, answer)
    IN  [removed_pkgs |-> IF b.path = <<>>
                          THEN tracked
                          ELSE Append(tracked, [name |-> pkg, path |-> b.path]),
         events |-> <<Event("backup", pkg, reposdir)>> \o b.events]

\* ChangedRPMPackagesController.backup_and_track_removed_pkg(pkg, reposdir)
BackupAndTrack(tracked, pkg, reposdir, system_info, answer) ==
    LET b == RestorablePackageBackup(pkg, reposdir, system_info, answer)
    IN  [removed_pkgs |-> Append(tracked, [name |-> pkg, path |-> b.path]),
         events |-> <<Event("backup", pkg, reposdir)>> \o b.events]

(***************************************************************************)
(* remove_pkgs                                                             *)
(***************************************************************************)
\* one loop that backs a package up and removes it before it turns to the next
RemovePkgsStepsOneLoop(pkgs_to_remove, backup) ==
    IF backup
    THEN [n \in 1..(2 * Len(pkgs_to_remove)) |->
             [do |-> IF n % 2 = 1 THEN "backup" ELSE "remove", i |-> (n + 1) \div 2]]
    ELSE [i \in 1..Len(pkgs_to_remove) |-> [do |-> "remove", i |-> i]]

\* the loop iterations of remove_pkgs() in the order the function runs them:
\* the backup loop over all packages, then the removal loop over all packages
RemovePkgsSteps(pkgs_to_remove, backup) ==
    (IF backup THEN [i \in 1..Len(pkgs_to_remove) |-> [do |-> "backup", i |-> i]] ELSE <<>>)
    \o [i \in 1..Len(pkgs_to_remove) |-> [do |-> "remove", i |-> i]]

\* the frame of a call of the package engine
Frame(op, pc, pkgs, backup, critical, reposdir, info, k, failed, removed, events, rkind, ret, raised) ==
    [op |-> op, pc |-> pc, pkgs |-> pkgs, backup |-> backup, critical |-> critical,
     reposdir |-> reposdir, system_info |-> info, k |-> k,
     pkgs_failed_to_remove |-> failed, pkgs_removed |-> removed, events |-> events,
     rkind |-> rkind, ret |-> ret, raised |-> raised]

NoSystemInfo == [eus_system |-> FALSE, id |-> "centos", has_internet_access |-> FALSE]

\* no call is running
IdleCall ==
    Frame("none", "idle", <<>>, FALSE, FALSE, <<>>, NoSystemInfo, 0, <<>>, <<>>, <<>>,
          "None", <<>>, "none")

\* the package lists a caller passes: no package twice
PkgLists ==
    {l \in UNION {[1..n -> Pkgs] : n \in 0..MaxPkgs} :
        \A i, j \in 1..Len(l) : i # j => l[i] # l[j]}

\* remove_pkgs(pkgs_to_remove, backup, critical, reposdir) is called
RemovePkgsCall ==
    /\ pkgcall.pc = "idle"
    /\ \E pkgs_to_remove \in PkgLists, backup \in BOOLEAN, critical \in BOOLEAN,
          reposdir \in ReposdirArgs, system_info \in SystemInfos :
          /\ backup => Len(removed_pkgs) + Len(pkgs_to_remove) <= MaxTracked
          /\ pkgcall' =
                IF pkgs_to_remove = <<>>
                THEN Frame("remove_pkgs", "done", pkgs_to_remove, backup, critical, reposdir,
                           system_info, 0, <<>>, <<>>, <<Event("info", <<>>, <<>>)>>,
                           "None", <<>>, "none")
                ELSE Frame("remove_pkgs", "loop", pkgs_to_remove, backup, critical, reposdir,
                           system_info, 1, <<>>, <<>>, <<>>, "None", <<>>, "none")
    /\ UNCHANGED <<installed_pkgs, removed_pkgs>>
    /\ UNCHANGED <<bcvars, actvars>>

\* where the call goes after iteration k
AfterStep(frame) ==
    IF frame.k < Len(RemovePkgsSteps(frame.pkgs, frame.backup)) THEN "loop" ELSE "finish"

\* one iteration of the backup loop
RemovePkgsBackup ==
    /\ pkgcall.pc = "loop"
    /\ LET step == RemovePkgsSteps(pkgcall.pkgs, pkgcall.backup)[pkgcall.k]
       IN  /\ step.do = "backup"
           /\ \E answer \in DownloadAnswers :
                 LET b == BackupAndTrack(removed_pkgs, pkgcall.pkgs[step.i], pkgcall.reposdir,
                                         pkgcall.system_info, answer)
                 IN  /\ removed_pkgs' = b.removed_pkgs
                     /\ pkgcall' = [pkgcall EXCEPT !.events = @ \o b.events,
                                                   !.k = @ + 1,
                                                   !.pc = AfterStep(pkgcall)]
    /\ UNCHANGED installed_pkgs
    /\ UNCHANGED <<bcvars, actvars>>

\* one iteration of the removal loop; ret_code is the exit status of rpm -e --nodeps
RemovePkgsRemove ==
    /\ pkgcall.pc = "loop"
    /\ LET step == RemovePkgsSteps(pkgcall.pkgs, pkgcall.backup)[pkgcall.k]
           nevra == pkgcall.pkgs[step.i]
           nvra == remove_epoch_from_yum_nevra_notation(nevra)
       IN  /\ step.do = "remove"
           /\ \E ret_code \in {0, 1} :
                 pkgcall' = [pkgcall EXCEPT
                     !.events = Append(@, Event("rpm_e", nvra, <<>>)),
                     !.pkgs_failed_to_remove = IF ret_code # 0 THEN Append(@, nevra) ELSE @,
                     !.pkgs_removed = IF ret_code # 0 THEN @ ELSE Append(@, nevra),
                     !.k = @ + 1,
                     !.pc = AfterStep(pkgcall)]
    /\ UNCHANGED <<installed_pkgs, removed_pkgs>>
    /\ UNCHANGED <<bcvars, actvars>>

\* where remove_pkgs() returns to: its caller, or _remove_installed_pkgs() and so
\* the next statement of restore_pkgs()
AfterRemovePkgs(frame) == IF frame.op = "restore_pkgs" THEN "orphans" ELSE "done"

\* an end of remove_pkgs() that treats the failures as an error only when no
\* package at all could be removed
RemovePkgsFinishAllFailed ==
    /\ pkgcall.pc = "finish"
    /\ pkgcall' =
          IF pkgcall.pkgs_removed = <<>> /\ pkgcall.critical
          THEN [pkgcall EXCEPT !.events = Append(@, Event("critical", <<>>, <<>>)),
                               !.pc = "done", !.rkind = "raise",
                               !.raised = "CriticalError"]
          ELSE [pkgcall EXCEPT
                    !.events = IF pkgcall.pkgs_failed_to_remove # <<>>
                               THEN Append(@, Event("warning", <<>>, <<>>)) ELSE @,
                    !.pc = AfterRemovePkgs(pkgcall), !.rkind = "list", !.ret = pkgcall.pkgs_removed]
    /\ UNCHANGED <<installed_pkgs, removed_pkgs>>
    /\ UNCHANGED <<bcvars, actvars>>

\* the end of remove_pkgs(): the failures are raised or warned about, the removed
\* packages returned
RemovePkgsFinish ==
    /\ pkgcall.pc = "finish"
    /\ pkgcall' =
          IF pkgcall.pkgs_failed_to_remove # <<>> /\ pkgcall.critical
          THEN [pkgcall EXCEPT !.events = Append(@, Event("critical", <<>>, <<>>)),
                               !.pc = "done", !.rkind = "raise",
                               !.raised = "CriticalError"]
          ELSE [pkgcall EXCEPT
                    !.events = IF pkgcall.pkgs_failed_to_remove # <<>>
                               THEN Append(@, Event("warning", <<>>, <<>>)) ELSE @,
                    !.pc = AfterRemovePkgs(pkgcall), !.rkind = "list", !.ret = pkgcall.pkgs_removed]
    /\ UNCHANGED <<installed_pkgs, removed_pkgs>>
    /\ UNCHANGED <<bcvars, actvars>>

\* the caller goes on after the call
Return ==
    /\ pkgcall.pc = "done"
    /\ pkgcall' = IdleCall
    /\ UNCHANGED <<installed_pkgs, removed_pkgs>>
    /\ UNCHANGED <<bcvars, actvars>>

(***************************************************************************)
(* ChangedRPMPackagesController: tracking and restore_pkgs                 *)
(***************************************************************************)
\* track_installed_pkg(pkg)
TrackInstalledPkg ==
    /\ pkgcall.pc = "idle"
    /\ Len(installed_pkgs) < MaxTracked
    /\ \E pkg \in Pkgs : installed_pkgs' = Append(installed_pkgs, pkg)
    /\ UNCHANGED <<removed_pkgs, pkgcall>>
    /\ UNCHANGED <<bcvars, actvars>>

\* track_installed_pkgs(pkgs)
TrackInstalledPkgs ==
    /\ pkgcall.pc = "idle"
    /\ \E pkgs \in PkgLists :
          /\ Len(installed_pkgs) + Len(pkgs) <= MaxTracked
          /\ installed_pkgs' = installed_pkgs \o pkgs
    /\ UNCHANGED <<removed_pkgs, pkgcall>>
    /\ UNCHANGED <<bcvars, actvars>>

\* backup_and_track_removed_pkg(pkg, reposdir), called on its own; the frame keeps
\* what os.path.isdir() and download_pkg() answered
BackupAndTrackRemovedPkg ==
    /\ pkgcall.pc = "idle"
    /\ Len(removed_pkgs) < MaxTracked
    /\ \E pkg \in Pkgs, reposdir \in ReposdirArgs, system_info \in SystemInfos,
          answer \in DownloadAnswers :
          LET b == BackupAndTrack(removed_pkgs, pkg, reposdir, system_info, answer)
          IN  /\ removed_pkgs' = b.removed_pkgs
              /\ pkgcall' =
                    Frame("backup_and_track_removed_pkg", "done", <<pkg>>, TRUE, FALSE,
                          reposdir, system_info, 0, <<>>, <<>>, b.events, "None", <<>>,
                          "none") @@ [answer |-> answer]
    /\ UNCHANGED installed_pkgs
    /\ UNCHANGED <<bcvars, actvars>>

\* _install_removed_pkgs() that passes over a package without a backup silently
PkgsToInstallSilentSkip(removed) ==
    LET HasPath(restorable_pkg) == restorable_pkg.path # <<>>
        kept == SelectSeq(removed, HasPath)
    IN  [paths |-> [i \in 1..Len(kept) |-> kept[i].path[1]], events |-> <<>>]

\* the loop of _install_removed_pkgs(): the paths to install and the warnings about
\* the packages that have none
RECURSIVE PkgsToInstall(_)
PkgsToInstall(removed) ==
    IF removed = <<>>
    THEN [paths |-> <<>>, events |-> <<>>]
    ELSE LET restorable_pkg == Head(removed)
             rest == PkgsToInstall(Tail(removed))
         IN  IF restorable_pkg.path = <<>>
             THEN [paths |-> rest.paths,
                   events |-> <<Event("warning", restorable_pkg.name, <<>>)>> \o rest.events]
             ELSE [paths |-> <<restorable_pkg.path[1]>> \o rest.paths,
                   events |-> rest.events]

\* os.path.splitext(os.path.basename(path))[0]
Nvra(path) == path.file

\* an _install_local_rpms() that starts the list of installed packages anew with
\* what it installed
InstallLocalRpmsTracksAnew(installed, pkgs_to_install, replace, critical, ret_code) ==
    LET rpm_i == Event(IF replace THEN "rpm_i_replacepkgs" ELSE "rpm_i",
                       pkgs_to_install, <<>>)
    IN  IF pkgs_to_install = <<>>
        THEN [installed_pkgs |-> installed, events |-> <<Event("info", <<>>, <<>>)>>,
              ret |-> FALSE, raised |-> "none"]
        ELSE IF ret_code # 0
        THEN IF critical
             THEN [installed_pkgs |-> installed,
                   events |-> <<rpm_i, Event("critical", <<>>, <<>>)>>,
                   ret |-> FALSE, raised |-> "CriticalError"]
             ELSE [installed_pkgs |-> installed,
                   events |-> <<rpm_i, Event("warning", <<>>, <<>>)>>,
                   ret |-> FALSE, raised |-> "none"]
        ELSE [installed_pkgs |->
                  [i \in 1..Len(pkgs_to_install) |-> Nvra(pkgs_to_install[i])],
              events |-> <<rpm_i>>, ret |-> TRUE, raised |-> "none"]

\* _install_local_rpms(pkgs_to_install, replace, critical); ret_code is the exit
\* status of rpm -i
InstallLocalRpms(installed, pkgs_to_install, replace, critical, ret_code) ==
    LET rpm_i == Event(IF replace THEN "rpm_i_replacepkgs" ELSE "rpm_i",
                       pkgs_to_install, <<>>)
    IN  IF pkgs_to_install = <<>>
        THEN [installed_pkgs |-> installed, events |-> <<Event("info", <<>>, <<>>)>>,
              ret |-> FALSE, raised |-> "none"]
        ELSE IF ret_code # 0
        THEN IF critical
             THEN [installed_pkgs |-> installed,
                   events |-> <<rpm_i, Event("critical", <<>>, <<>>)>>,
                   ret |-> FALSE, raised |-> "CriticalError"]
             ELSE [installed_pkgs |-> installed,
                   events |-> <<rpm_i, Event("warning", <<>>, <<>>)>>,
                   ret |-> FALSE, raised |-> "none"]
        ELSE [installed_pkgs |->
                  installed \o [i \in 1..Len(pkgs_to_install) |-> Nvra(pkgs_to_install[i])],
              events |-> <<rpm_i>>, ret |-> TRUE, raised |-> "none"]

\* _install_removed_pkgs() that leaves critical at its default
InstallRemovedPkgsCritical(installed, removed, ret_code) ==
    LET todo == PkgsToInstall(removed)
        res == InstallLocalRpms(installed, todo.paths, TRUE, TRUE, ret_code)
    IN  [res EXCEPT !.events = todo.events \o @]

\* _install_removed_pkgs()
InstallRemovedPkgs(installed, removed, ret_code) ==
    LET todo == PkgsToInstall(removed)
        res == InstallLocalRpms(installed, todo.paths, TRUE, FALSE, ret_code)
    IN  [res EXCEPT !.events = todo.events \o @]

\* restore_pkgs() is called: _remove_installed_pkgs() calls
\* remove_pkgs(self.installed_pkgs, backup=False, critical=False)
RestorePkgsCall ==
    /\ pkgcall.pc = "idle"
    /\ Len(installed_pkgs) <= MaxTracked
    /\ pkgcall' =
          IF installed_pkgs = <<>>
          THEN Frame("restore_pkgs", "orphans", installed_pkgs, FALSE, FALSE, <<>>,
                     NoSystemInfo, 0, <<>>, <<>>, <<Event("info", <<>>, <<>>)>>,
                     "None", <<>>, "none")
          ELSE Frame("restore_pkgs", "loop", installed_pkgs, FALSE, FALSE, <<>>,
                     NoSystemInfo, 1, <<>>, <<>>, <<>>, "None", <<>>, "none")
    /\ UNCHANGED <<installed_pkgs, removed_pkgs>>
    /\ UNCHANGED <<bcvars, actvars>>

\* restore_pkgs(): remove_orphan_folders()
RestorePkgsOrphans ==
    /\ pkgcall.pc = "orphans"
    /\ pkgcall' = [pkgcall EXCEPT
                      !.events = Append(@, Event("remove_orphan_folders", <<>>, <<>>)),
                      !.pc = "install"]
    /\ UNCHANGED <<installed_pkgs, removed_pkgs>>
    /\ UNCHANGED <<bcvars, actvars>>

\* restore_pkgs(): _install_removed_pkgs(), then the return
RestorePkgsInstall ==
    /\ pkgcall.pc = "install"
    /\ \E ret_code \in {0, 1} :
          LET res == InstallRemovedPkgs(installed_pkgs, removed_pkgs, ret_code)
          IN  /\ installed_pkgs' = res.installed_pkgs
              /\ pkgcall' = [pkgcall EXCEPT
                                !.events = @ \o res.events,
                                !.pc = "done",
                                !.rkind = IF res.raised = "none" THEN "None" ELSE "raise",
                                !.ret = <<>>,
                                !.raised = res.raised]
    /\ UNCHANGED removed_pkgs
    /\ UNCHANGED <<bcvars, actvars>>

(***************************************************************************)
(* Actions: PreSubscription, SubscribeSystem and the actions they depend   *)
(* on                                                                      *)
(***************************************************************************)
ActionIds ==
    {"REMOVE_EXCLUDED_PACKAGES", "REMOVE_REPOSITORY_FILES_PACKAGES", "PRE_SUBSCRIPTION",
     "SUBSCRIBE_SYSTEM"}

\* PreSubscription.dependencies
PreSubscriptionDependencies == <<"REMOVE_EXCLUDED_PACKAGES">>

\* a SubscribeSystem that does not declare PRE_SUBSCRIPTION
SubscribeSystemDependenciesNoPre == <<"REMOVE_REPOSITORY_FILES_PACKAGES">>

\* SubscribeSystem.dependencies
SubscribeSystemDependencies == <<"REMOVE_REPOSITORY_FILES_PACKAGES", "PRE_SUBSCRIPTION">>

\* the dependencies an action declares
Dependencies(action) ==
    CASE action = "PRE_SUBSCRIPTION" -> PreSubscriptionDependencies
      [] action = "SUBSCRIBE_SYSTEM" -> SubscribeSystemDependencies
      [] OTHER -> <<>>

\* the calls PreSubscription.run() makes that change the system
PreSubscriptionCalls ==
    <<"install_gpg_keys", "download_rhsm_pkgs", "replace_subscription_manager",
      "verify_rhsm_installed", "SystemCert.install">>

\* the calls SubscribeSystem.run() makes that change the system
SubscribeSystemCalls ==
    <<"subscribe_system", "get_rhel_repoids", "disable_repos", "enable_repos">>

MutatingCalls(action) ==
    CASE action = "PRE_SUBSCRIPTION" -> PreSubscriptionCalls
      [] action = "SUBSCRIBE_SYSTEM" -> SubscribeSystemCalls
      [] OTHER -> <<"remove_pkgs">>

\* the actions that look at tool_opts.no_rhsm
HonorsNoRhsm(action) == action \in {"PRE_SUBSCRIPTION", "SUBSCRIBE_SYSTEM"}

\* a result or a message; diagnosis and remediation are None (<<>>) or a text
ActionResult(level, id, title, description, diagnosis, remediation) ==
    [level |-> level, id |-> id, title |-> title, description |-> description,
     diagnosis |-> diagnosis, remediation |-> remediation]

\* the result an action has before run() sets one
SuccessResult == ActionResult("SUCCESS", "SUCCESS", "", "", <<>>, <<>>)

\* a skip message logged as plain information
PreSubscriptionSkipMessageInfo ==
    ActionResult("INFO", "PRE_SUBSCRIPTION_CHECK_SKIP", "Pre-subscription check skip",
                 "Detected --no-rhsm option. Skipping.", <<>>, <<>>)

PreSubscriptionSkipMessage ==
    ActionResult("WARNING", "PRE_SUBSCRIPTION_CHECK_SKIP", "Pre-subscription check skip",
                 "Detected --no-rhsm option. Skipping.", <<>>, <<>>)

SubscribeSystemSkipMessage ==
    ActionResult("WARNING", "SUBSCRIPTION_CHECK_SKIP", "Subscription check skip",
                 "Detected --no-rhsm option. Skipping.", <<>>, <<>>)

SkipMessage(action) ==
    IF action = "PRE_SUBSCRIPTION" THEN PreSubscriptionSkipMessage
    ELSE SubscribeSystemSkipMessage

\* an unknown-error result that drops the text of the failure
UnknownErrorResultNoDiagnosis(text) ==
    ActionResult("ERROR", "UNKNOWN_ERROR", "Unknown error",
                 "The cause of this error is unknown", <<>>, <<>>)

\* the result for a failure the action does not recognize; text is str(e)
UnknownErrorResult(text) ==
    ActionResult("ERROR", "UNKNOWN_ERROR", "Unknown error",
                 "The cause of this error is unknown", <<text>>, <<>>)

\* the failures the underlying calls raise: the abort signal, the anticipated
\* failures of the two actions, and one that no action anticipates
FailureKinds == {"SystemExit", "UnregisterError", "ValueError", "IOError", "KeyError"}

FailureTexts == {"Exiting...", "/usr/bin/t"}

\* the failures an action maps to an id of their own
Recognized(action) ==
    CASE action = "PRE_SUBSCRIPTION" -> {"UnregisterError"}
      [] action = "SUBSCRIBE_SYSTEM" -> {"ValueError", "IOError"}
      [] OTHER -> {}

\* the result for an anticipated failure
RecognizedResult(kind, text) ==
    CASE kind = "UnregisterError" ->
            ActionResult("ERROR", "UNABLE_TO_REGISTER", "System unregistration failure",
                         "The system is already registered with subscription-manager",
                         <<"Failed to unregister the system:", text>>,
                         <<"You may want to unregister the system manually">>)
      [] kind = "ValueError" ->
            ActionResult("ERROR", "MISSING_REGISTRATION_COMBINATION",
                         "Missing registration combination",
                         "There are missing registration combinations",
                         <<"One or more combinations were missing for subscription-manager parameters:", text>>,
                         <<>>)
      [] kind = "IOError" ->
            ActionResult("ERROR", "MISSING_SUBSCRIPTION_MANAGER_BINARY",
                         "Missing subscription-manager binary",
                         "There is a missing subscription-manager binary",
                         <<"Failed to execute command:", text>>, <<>>)

\* no failure: every call returns
NoFailure == [at |-> 0, kind |-> "none", text |-> ""]

\* what can go wrong in a run(): the call number at raises a failure
FailuresOf(action) ==
    {NoFailure} \cup [at : 1..Len(MutatingCalls(action)), kind : FailureKinds,
                      text : FailureTexts]

RunRecord(action, no_rhsm, failure, calls, messages, result, set_results, escaped) ==
    [action |-> action, no_rhsm |-> no_rhsm, failure |-> failure, calls |-> calls,
     messages |-> messages, result |-> result, set_results |-> set_results,
     escaped |-> escaped]

\* no action has run
NoRun == RunRecord("none", FALSE, NoFailure, <<>>, {}, SuccessResult, 0, "none")

\* action.run() with tool_opts.no_rhsm and the failure its calls meet
ActionRun(action, no_rhsm, failure) ==
    IF HonorsNoRhsm(action) /\ no_rhsm
    THEN RunRecord(action, no_rhsm, failure, <<>>, {SkipMessage(action)}, SuccessResult,
                   0, "none")
    ELSE IF failure = NoFailure
    THEN RunRecord(action, no_rhsm, failure, MutatingCalls(action), {}, SuccessResult,
                   0, "none")
    ELSE RunRecord(action, no_rhsm, failure,
                   SubSeq(MutatingCalls(action), 1, failure.at), {},
                   IF failure.kind \in Recognized(action)
                   THEN RecognizedResult(failure.kind, failure.text)
                   ELSE UnknownErrorResult(failure.text),
                   1, "none")

(***************************************************************************)
(* The BackupController as a state machine                                 *)
(***************************************************************************)
CallRecord(op, arg, honor, pre, post, enables, restores, warnings, ret, rkind, raised) ==
    [op |-> op, arg |-> arg, honor |-> honor, pre |-> pre, post |-> post,
     enables |-> enables, restores |-> restores, warnings |-> warnings,
     ret |-> ret, rkind |-> rkind, raised |-> raised]

\* the record that stands for "no call yet"
NoCall == CallRecord("none", "-", FALSE, <<>>, <<>>, <<>>, <<>>, 0, <<>>, "None", "none")

\* the objects a sequence of enable() or restore() calls was made on
Objs(calls) == [i \in 1..Len(calls) |-> calls[i].obj]

\* what is kept of a call once another call has followed it
Brief(rec) ==
    [op |-> rec.op, honor |-> rec.honor, pre |-> rec.pre, post |-> rec.post,
     restored |-> Objs(rec.restores), raised |-> rec.raised]

\* the outcomes restore() may have for the entries of a journal: one per
\* non-marker position (a marker is never restored)
RestoreOutcomes(stack) ==
    {f \in [1..Len(stack) -> Outcomes] : \A i \in 1..Len(stack) : stack[i] = partition => f[i] = "ok"}

\* BackupController.__init__ and ChangedRPMPackagesController.__init__
Init ==
    /\ restorables = <<>>
    /\ enabled = [r \in RestorableChange |-> FALSE]
    /\ last = NoCall
    /\ prev = Brief(NoCall)
    /\ popBase = <<>>
    /\ popRets = <<>>
    /\ installed_pkgs = <<>>
    /\ removed_pkgs = <<>>
    /\ pkgcall = IdleCall
    /\ running = {}
    /\ completed = <<>>
    /\ last_run = NoRun

Push ==
    \E x \in PushValues :
    \E out \in (IF x \in RestorableChange THEN Outcomes ELSE {"ok"}) :
        LET res == PushResult(restorables, x, out)
        IN  /\ Len(res.stack) <= MaxLen
            /\ restorables' = res.stack
            /\ enabled' = IF res.enables = <<>> THEN enabled ELSE EnableEffect(enabled, x, out)
            /\ last' = CallRecord("push", x, FALSE, restorables, res.stack,
                                  res.enables, <<>>, 0, <<>>,
                                  IF res.raised = "none" THEN "None" ELSE "raise",
                                  res.raised)
            /\ prev' = Brief(last)
            /\ popBase' = res.stack
            /\ popRets' = <<>>
            /\ UNCHANGED <<pkgvars, actvars>>

Pop ==
    \E out \in (IF Reals(restorables) = <<>> THEN {"ok"} ELSE Outcomes) :
        LET res == PopResult(restorables, out)
        IN  /\ restorables' = res.stack
            /\ enabled' = ApplyRestores(enabled, res.restores)
            /\ last' = CallRecord("pop", "-", FALSE, restorables, res.stack,
                                  <<>>, res.restores, 0, res.ret,
                                  IF res.raised = "none" THEN "object" ELSE "raise",
                                  res.raised)
            /\ prev' = Brief(last)
            /\ popBase' = IF res.raised = "none" THEN popBase ELSE res.stack
            /\ popRets' = IF res.raised = "none" THEN popRets \o res.ret ELSE <<>>
            /\ UNCHANGED <<pkgvars, actvars>>

PopAll ==
    \E honor \in BOOLEAN :
    \E outs \in RestoreOutcomes(restorables) :
        LET res == PopAllResult(restorables, honor, outs)
        IN  /\ restorables' = res.stack
            /\ enabled' = ApplyRestores(enabled, res.restores)
            /\ last' = CallRecord("pop_all", "-", honor, restorables, res.stack,
                                  <<>>, res.restores, res.warnings, res.ret,
                                  IF res.raised = "none" THEN "list" ELSE "raise",
                                  res.raised)
            /\ prev' = Brief(last)
            /\ popBase' = res.stack
            /\ popRets' = <<>>
            /\ UNCHANGED <<pkgvars, actvars>>

PopToPartition ==
    \E outs \in RestoreOutcomes(restorables) :
        LET res == PopToPartitionResult(restorables, outs)
        IN  /\ restorables' = res.stack
            /\ enabled' = ApplyRestores(enabled, res.restores)
            /\ last' = CallRecord("pop_to_partition", "-", TRUE, restorables, res.stack,
                                  <<>>, res.restores, res.warnings, res.ret,
                                  IF res.raised = "none" THEN "None" ELSE "raise",
                                  res.raised)
            /\ prev' = Brief(last)
            /\ popBase' = res.stack
            /\ popRets' = <<>>
            /\ UNCHANGED <<pkgvars, actvars>>

Next == Push \/ Pop \/ PopAll \/ PopToPartition

Spec == Init /\ [][Next]_vars

(***************************************************************************)
(* The package engine as a state machine                                   *)
(***************************************************************************)
NextPkgs == RemovePkgsCall \/ RemovePkgsBackup \/ RemovePkgsRemove \/ RemovePkgsFinish \/ Return

SpecPkgs == Init /\ [][NextPkgs]_vars

\* the controller of the changed packages: tracking, backing up, restore_pkgs()
NextRestore ==
    \/ TrackInstalledPkg
    \/ TrackInstalledPkgs
    \/ BackupAndTrackRemovedPkg
    \/ RestorePkgsCall
    \/ RemovePkgsRemove
    \/ RemovePkgsFinish
    \/ RestorePkgsOrphans
    \/ RestorePkgsInstall
    \/ Return

SpecRestore == Init /\ [][NextRestore]_vars

(***************************************************************************)
(* The orchestrator of the actions                                         *)
(***************************************************************************)
\* the orchestrator starts the next action: none is running, the action has not
\* run yet and every action it depends on has finished
StartAction ==
    /\ running = {}
    /\ \E action \in ActionIds :
          /\ action \notin Range(completed)
          /\ \A d \in Range(Dependencies(action)) : d \in Range(completed)
          /\ running' = {action}
    /\ UNCHANGED <<completed, last_run>>
    /\ UNCHANGED <<bcvars, pkgvars>>

\* the started action runs to its end
RunAction ==
    /\ \E action \in running :
       \E no_rhsm \in BOOLEAN, failure \in FailuresOf(action) :
          /\ last_run' = ActionRun(action, no_rhsm, failure)
          /\ running' = running \ {action}
          /\ completed' = Append(completed, action)
    /\ UNCHANGED <<bcvars, pkgvars>>

NextActions == StartAction \/ RunAction

SpecActions == Init /\ [][NextActions]_vars

(***************************************************************************)
(* Vocabulary of the properties                                            *)
(***************************************************************************)
Max(S) == CHOOSE n \in S : \A m \in S : m <= n

\* position of the topmost marker of a journal, 0 when it holds none
TopMarker(s) == Max({0} \cup {i \in 1..Len(s) : s[i] = partition})

\* position of the topmost non-marker entry of a journal, 0 when it holds none
TopReal(s) == Max({0} \cup {i \in 1..Len(s) : s[i] # partition})

\* the entries of a journal above position k, and those below position k
Above(s, k) == SubSeq(s, k + 1, Len(s))
Below(s, k) == SubSeq(s, 1, k - 1)

Failures(calls) == Cardinality({i \in 1..Len(calls) : calls[i].outcome # "ok"})

IsPop(op) == op \in {"pop", "pop_all", "pop_to_partition"}

(***************************************************************************)
(* C1: over any interleaving of push, pop, pop_all and pop_to_partition,   *)
(* a call only ever takes entries off the top of the journal, and the      *)
(* restore() calls it makes are exactly on the non-marker entries it took  *)
(* off, topmost (most recently pushed) first; a push only adds at the top, *)
(* after enable(). So every restore() is on the most recently pushed       *)
(* non-marker entry still held, and restores run in reverse enable order.  *)
(***************************************************************************)
C1_RestoreIsOnNewestHeld ==
    /\ last.post = restorables
    /\ (last.op # "none" /\ prev.op # "none") => prev.post = last.pre
    /\ last.op = "push" =>
          /\ last.restores = <<>>
          /\ \/ last.post = last.pre
             \/ /\ last.post = Append(last.pre, last.arg)
                /\ last.arg # partition => last.enables = <<[obj |-> last.arg, outcome |-> "ok"]>>
    /\ IsPop(last.op) =>
          \E k \in 0..Len(last.pre) :
              /\ last.post = SubSeq(last.pre, 1, k)
              /\ Objs(last.restores) = Reverse(Reals(Above(last.pre, k)))

\* a call made after a push has restored three entries, not all the same object
C1_Witness ==
    /\ IsPop(last.op)
    /\ Len(last.restores) = 3
    /\ last.pre[1] # last.pre[3]
    /\ prev.op = "push"

(***************************************************************************)
(* C2: pop() takes the topmost non-marker entry and every marker above it  *)
(* off the journal, calls restore() on that entry and on nothing else, and *)
(* - when restore() returns - returns that entry; after pushes p1..pn with *)
(* no markers, a run of consecutive pop() calls returns pn, pn-1, ...      *)
(***************************************************************************)
C2_PopReturnsNewest ==
    /\ (last.op = "pop" /\ Reals(last.pre) # <<>>) =>
          LET k == TopReal(last.pre)
          IN  /\ Objs(last.restores) = <<last.pre[k]>>
              /\ last.post = Below(last.pre, k)
              /\ last.raised = "none" <=> last.restores[1].outcome = "ok"
              /\ last.raised = "none" => last.ret = <<last.pre[k]>>
              /\ last.raised # "none" => last.ret = <<>>
    /\ Reals(popBase) = popBase =>
          /\ Len(popRets) <= Len(popBase)
          /\ popRets = Reverse(Above(popBase, Len(popBase) - Len(popRets)))
          /\ restorables = SubSeq(popBase, 1, Len(popBase) - Len(popRets))

\* three pushes without markers, then three pop() calls that returned
C2_Witness ==
    /\ Len(popBase) = 3
    /\ Reals(popBase) = popBase
    /\ popBase[1] # popBase[3]
    /\ Len(popRets) = 3
    /\ last.op = "pop"

(***************************************************************************)
(* C3: pop_all() that does not honour partitions, on a journal with at     *)
(* least one real entry, calls restore() on every real entry exactly once, *)
(* newest first, wherever the markers sit.                                 *)
(***************************************************************************)
C3_PopAllRestoresAll ==
    (last.op = "pop_all" /\ ~last.honor /\ Reals(last.pre) # <<>>) =>
        /\ Objs(last.restores) = Reverse(Reals(last.pre))
        /\ last.post = <<>>

\* pop_all() on a journal with a marker between two different real entries
C3_Witness ==
    /\ last.op = "pop_all"
    /\ ~last.honor
    /\ Len(last.pre) = 3
    /\ last.pre[2] = partition
    /\ last.pre[1] # partition
    /\ last.pre[3] # partition
    /\ last.pre[1] # last.pre[3]

(***************************************************************************)
(* C4: on a journal with at least one marker, pop_to_partition() followed  *)
(* by pop_all() restores every real entry exactly once, newest first: the  *)
(* entries above the topmost marker in the first call, the rest in the     *)
(* second.                                                                 *)
(***************************************************************************)
C4_TwoPhaseRollback ==
    (/\ prev.op = "pop_to_partition"
     /\ last.op = "pop_all"
     /\ ~last.honor
     /\ TopMarker(prev.pre) # 0) =>
        LET k == TopMarker(prev.pre)
        IN  /\ prev.restored = Reverse(Reals(Above(prev.pre, k)))
            /\ Objs(last.restores) = Reverse(Reals(Below(prev.pre, k)))
            /\ prev.restored \o Objs(last.restores) = Reverse(Reals(prev.pre))

\* both phases restored something: real entries on both sides of the marker
C4_Witness ==
    /\ prev.op = "pop_to_partition"
    /\ last.op = "pop_all"
    /\ ~last.honor
    /\ Len(prev.pre) = 3
    /\ prev.pre[2] = partition
    /\ prev.restored # <<>>
    /\ last.restores # <<>>
    /\ prev.pre[1] # prev.pre[3]

(***************************************************************************)
(* C5: pop_all() honouring partitions stops at the topmost marker: the     *)
(* entries below it stay in the journal, unrestored, and the call returns  *)
(* an empty list; not honouring them, it skips every marker and drains the *)
(* journal to the bottom.                                                  *)
(***************************************************************************)
C5_HonorPartitions ==
    /\ (/\ last.op = "pop_all"
        /\ last.honor
        /\ Reals(last.pre) # <<>>
        /\ TopMarker(last.pre) # 0) =>
           LET k == TopMarker(last.pre)
           IN  /\ last.post = Below(last.pre, k)
               /\ Objs(last.restores) = Reverse(Reals(Above(last.pre, k)))
               /\ last.rkind = "list"
               /\ last.ret = <<>>
    /\ (/\ last.op = "pop_all"
        /\ ~last.honor
        /\ Reals(last.pre) # <<>>) =>
           /\ last.post = <<>>
           /\ Len(last.restores) = Len(Reals(last.pre))

\* an honouring pop_all() restored an entry above a marker and left one below it
C5_Witness ==
    /\ last.op = "pop_all"
    /\ last.honor
    /\ Len(last.pre) = 3
    /\ last.pre[2] = partition
    /\ last.restores # <<>>
    /\ last.post # <<>>

(***************************************************************************)
(* C6: in pop_all(), a restore() that raises (an exception or an exit      *)
(* signal) is caught: restore() is still attempted on every older entry    *)
(* the call would have reached, one warning is logged per restore() that   *)
(* raised, and pop_all() does not raise.                                   *)
(***************************************************************************)
C6_FailureIsolation ==
    (last.op = "pop_all" /\ Reals(last.pre) # <<>>) =>
        LET k == IF last.honor THEN TopMarker(last.pre) ELSE 0
        IN  /\ last.raised = "none"
            /\ Objs(last.restores) = Reverse(Reals(Above(last.pre, k)))
            /\ last.warnings = Failures(last.restores)

\* the newest entry's restore() ended in an exit signal, an older one was still restored
C6_Witness ==
    /\ last.op = "pop_all"
    /\ Len(last.restores) = 3
    /\ last.restores[1].outcome = "SystemExit"
    /\ last.restores[2].outcome = "Exception"
    /\ last.restores[3].outcome = "ok"
    /\ last.warnings = 2

(***************************************************************************)
(* C7: pop() and pop_all() on a journal that is empty or holds only        *)
(* markers fail with IndexError ("No backups to restore") and call         *)
(* restore() on nothing.                                                   *)
(***************************************************************************)
C7_EmptyJournal ==
    (last.op \in {"pop", "pop_all"} /\ Reals(last.pre) = <<>>) =>
        /\ last.raised = "IndexError"
        /\ last.restores = <<>>

\* pop_all() and then pop() have both failed on a journal of markers
C7_Witness ==
    /\ prev.op = "pop_all"
    /\ prev.pre # <<>>
    /\ prev.raised = "IndexError"
    /\ last.op = "pop"
    /\ last.pre # <<>>
    /\ last.raised = "IndexError"

(***************************************************************************)
(* C8: push(x) of a value that is neither the marker nor a                 *)
(* RestorableChange fails with TypeError, calls no enable() and leaves the *)
(* journal as it was.                                                      *)
(***************************************************************************)
C8_PushRejects ==
    (last.op = "push" /\ last.arg \notin RestorableChange \cup {partition}) =>
        /\ last.raised = "TypeError"
        /\ last.enables = <<>>
        /\ last.post = last.pre
        /\ restorables = last.pre

\* a non-conforming value was pushed onto a journal that holds entries
C8_Witness ==
    /\ last.op = "push"
    /\ last.arg \in NonRestorable
    /\ Len(last.pre) = 2

(***************************************************************************)
(* C9: push(r) of a RestorableChange calls r.enable() exactly once and     *)
(* - enable() having returned - makes r the new top of the journal, the    *)
(* entries below unchanged; push of the marker appends the marker and      *)
(* calls enable() on nothing.                                              *)
(***************************************************************************)
C9_PushEnablesThenAppends ==
    /\ (last.op = "push" /\ last.arg \in RestorableChange) =>
          /\ Len(last.enables) = 1
          /\ last.enables[1].obj = last.arg
          /\ last.raised = "none" <=> last.enables[1].outcome = "ok"
          /\ last.raised = "none" =>
                /\ restorables = Append(last.pre, last.arg)
                /\ enabled[last.arg]
    /\ (last.op = "push" /\ last.arg = partition) =>
          /\ last.enables = <<>>
          /\ last.raised = "none"
          /\ restorables = Append(last.pre, partition)

\* a RestorableChange was pushed on top of a marker and another object
C9_Witness ==
    /\ last.op = "push"
    /\ last.arg \in RestorableChange
    /\ last.raised = "none"
    /\ Len(last.pre) = 2
    /\ last.pre[2] = partition
    /\ last.pre[1] # last.arg
    /\ prev.op = "push"
    /\ prev.post = last.pre

(***************************************************************************)
(* Vocabulary of the package properties                                    *)
(***************************************************************************)
IsBackupEvent(e) == e.kind = "backup"

IsRemovalEvent(e) == e.kind = "rpm_e"

Args(events) == [i \in 1..Len(events) |-> events[i].arg]

Names(tracked) == [i \in 1..Len(tracked) |-> tracked[i].name]

\* position of the first removal command among the events, 0 when there is none
FirstRemoval(events) ==
    IF \E i \in 1..Len(events) : IsRemovalEvent(events[i])
    THEN CHOOSE i \in 1..Len(events) :
            /\ IsRemovalEvent(events[i])
            /\ \A j \in 1..(i - 1) : ~IsRemovalEvent(events[j])
    ELSE 0

(***************************************************************************)
(* C10: in remove_pkgs(backup=True), by the time the first removal command *)
(* is issued every target has been backed up and tracked                   *)
(* (backup_and_track_removed_pkg), in list order, and no backup follows a  *)
(* removal.                                                                *)
(***************************************************************************)
C10_BackupsBeforeRemovals ==
    (/\ pkgcall.op = "remove_pkgs"
     /\ pkgcall.backup
     /\ FirstRemoval(pkgcall.events) # 0) =>
        LET f == FirstRemoval(pkgcall.events)
            n == Len(pkgcall.pkgs)
        IN  /\ Args(SelectSeq(SubSeq(pkgcall.events, 1, f - 1), IsBackupEvent)) = pkgcall.pkgs
            /\ \A j \in f..Len(pkgcall.events) : ~IsBackupEvent(pkgcall.events[j])
            /\ Len(removed_pkgs) >= n
            /\ Names(SubSeq(removed_pkgs, Len(removed_pkgs) - n + 1, Len(removed_pkgs)))
                  = pkgcall.pkgs

\* remove_pkgs(backup=True) of two packages has issued both removal commands
C10_Witness ==
    /\ pkgcall.op = "remove_pkgs"
    /\ pkgcall.backup
    /\ pkgcall.pc = "done"
    /\ Len(pkgcall.pkgs) = 2
    /\ Len(SelectSeq(pkgcall.events, IsRemovalEvent)) = 2

(***************************************************************************)
(* C11: the removal command of remove_pkgs() gets each identifier with a   *)
(* leading "<digits>:" epoch cut off and every other identifier (a dnf     *)
(* epoch before the version included) as it is; the returned list holds    *)
(* the identifiers as the caller passed them.                              *)
(***************************************************************************)
\* nvra is nevra without its leading yum epoch, stated without the function
WithoutLeadingEpoch(nevra, nvra) ==
    LET epochs == {n \in 1..(Len(nevra) - 1) :
                      /\ \A j \in 1..n : nevra[j] \in Digits
                      /\ nevra[n + 1] = ":"}
    IN  IF epochs = {}
        THEN nvra = nevra
        ELSE \E n \in epochs : nvra = SubSeq(nevra, n + 2, Len(nevra))

C11_EpochCutForRpmOnly ==
    pkgcall.op = "remove_pkgs" =>
        LET removals == SelectSeq(pkgcall.events, IsRemovalEvent)
        IN  /\ Len(removals) <= Len(pkgcall.pkgs)
            /\ \A i \in 1..Len(removals) :
                   WithoutLeadingEpoch(pkgcall.pkgs[i], removals[i].arg)
            /\ \A i \in 1..Len(pkgcall.pkgs_removed) :
                   \E j \in 1..Len(pkgcall.pkgs) : pkgcall.pkgs_removed[i] = pkgcall.pkgs[j]
            /\ (pkgcall.pc = "done" /\ pkgcall.rkind = "list") =>
                   pkgcall.ret = pkgcall.pkgs_removed

\* remove_pkgs() has removed a yum-epoch and a dnf-epoch package: the command got
\* "a-1" and "c-8:3", the returned list holds "7:a-1" and "c-8:3"
C11_Witness ==
    /\ pkgcall.op = "remove_pkgs"
    /\ pkgcall.pc = "done"
    /\ pkgcall.pkgs = << <<"7", ":", "a", "-", "1">>, <<"c", "-", "8", ":", "3">> >>
    /\ pkgcall.ret = pkgcall.pkgs
    /\ Args(SelectSeq(pkgcall.events, IsRemovalEvent))
          = << <<"a", "-", "1">>, <<"c", "-", "8", ":", "3">> >>

(***************************************************************************)
(* C12: remove_pkgs() attempts the removal of every target and splits the  *)
(* targets into removed and failed ones.  With a failure, critical=True    *)
(* ends in a CriticalError and critical=False in a warning and the removed *)
(* targets, in input order, as the return value; which of the two happens  *)
(* depends on the critical flag alone, not on the failed packages.         *)
(***************************************************************************)
\* sub holds elements of seq, each once, in the order seq has them
IsOrderedPart(sub, seq) ==
    LET InSub(x) == x \in Range(sub)
    IN  sub = SelectSeq(seq, InSub)

C12_FailuresRaiseOnlyWhenCritical ==
    (pkgcall.op = "remove_pkgs" /\ pkgcall.pc = "done" /\ pkgcall.pkgs # <<>>) =>
        LET failed == pkgcall.pkgs_failed_to_remove
            removed == pkgcall.pkgs_removed
        IN  /\ Len(SelectSeq(pkgcall.events, IsRemovalEvent)) = Len(pkgcall.pkgs)
            /\ IsOrderedPart(failed, pkgcall.pkgs)
            /\ IsOrderedPart(removed, pkgcall.pkgs)
            /\ Range(failed) \cap Range(removed) = {}
            /\ Range(failed) \cup Range(removed) = Range(pkgcall.pkgs)
            /\ (pkgcall.raised = "CriticalError") <=> (failed # <<>> /\ pkgcall.critical)
            /\ pkgcall.raised \in {"none", "CriticalError"}
            /\ pkgcall.raised = "CriticalError" =>
                   /\ pkgcall.rkind = "raise"
                   /\ Last(pkgcall.events).kind = "critical"
            /\ pkgcall.raised = "none" =>
                   /\ pkgcall.rkind = "list"
                   /\ pkgcall.ret = removed
                   /\ (failed # <<>>) <=> (Last(pkgcall.events).kind = "warning")

\* the first package of two failed and the call was not critical: the call warned
\* and returned the one removed package
C12_Witness ==
    /\ pkgcall.op = "remove_pkgs"
    /\ pkgcall.pc = "done"
    /\ ~pkgcall.critical
    /\ Len(pkgcall.pkgs) = 2
    /\ pkgcall.pkgs_failed_to_remove = <<pkgcall.pkgs[1]>>
    /\ pkgcall.rkind = "list"
    /\ pkgcall.ret = <<pkgcall.pkgs[2]>>
    /\ Last(pkgcall.events).kind = "warning"

(***************************************************************************)
(* Vocabulary of the restore_pkgs properties                               *)
(***************************************************************************)
IsOrphansEvent(e) == e.kind = "remove_orphan_folders"

IsInstallEvent(e) == e.kind \in {"rpm_i", "rpm_i_replacepkgs"}

HasBackup(restorable_pkg) == restorable_pkg.path # <<>>

\* position of the clean-up of the orphaned folders among the events, 0 when there
\* is none
OrphansAt(events) ==
    IF \E i \in 1..Len(events) : IsOrphansEvent(events[i])
    THEN CHOOSE i \in 1..Len(events) : IsOrphansEvent(events[i])
    ELSE 0

\* a call of restore_pkgs() has returned or raised
RestoreEnded == pkgcall.op = "restore_pkgs" /\ pkgcall.pc = "done"

(***************************************************************************)
(* C13: restore_pkgs() first issues a removal command for every tracked    *)
(* installed package, whatever the earlier commands answered, then cleans  *)
(* the orphaned folders, then reinstalls, with one command, exactly the    *)
(* removed packages that have a backup path, in tracking order; each       *)
(* removed package without a path is skipped with a warning.               *)
(***************************************************************************)
C13_RestoreRemovesCleansReinstalls ==
    RestoreEnded =>
        LET ev == pkgcall.events
            o == OrphansAt(ev)
            before == SubSeq(ev, 1, o - 1)
            after == SubSeq(ev, o + 1, Len(ev))
            removals == SelectSeq(before, IsRemovalEvent)
            installs == SelectSeq(after, IsInstallEvent)
            kept == SelectSeq(removed_pkgs, HasBackup)
        IN  /\ o # 0
            /\ Len(SelectSeq(ev, IsOrphansEvent)) = 1
            /\ Len(SelectSeq(ev, IsRemovalEvent)) = Len(removals)
            /\ Len(SelectSeq(ev, IsInstallEvent)) = Len(installs)
            /\ Len(removals) = Len(pkgcall.pkgs)
            /\ \A i \in 1..Len(removals) :
                   WithoutLeadingEpoch(pkgcall.pkgs[i], removals[i].arg)
            /\ IF kept = <<>>
               THEN installs = <<>>
               ELSE /\ Len(installs) = 1
                    /\ installs[1].kind = "rpm_i_replacepkgs"
                    /\ Len(installs[1].arg) = Len(kept)
                    /\ \A i \in 1..Len(kept) : installs[1].arg[i] = kept[i].path[1]
            /\ \A i \in 1..Len(removed_pkgs) :
                   ~HasBackup(removed_pkgs[i]) =>
                       \E j \in 1..Len(after) :
                          /\ after[j].kind = "warning"
                          /\ after[j].arg = removed_pkgs[i].name
                          /\ \A k \in 1..j : ~IsInstallEvent(after[k])

\* restore_pkgs() of two installed packages, the first of which could not be
\* removed, and of two removed packages, one with and one without a backup
C13_Witness ==
    /\ RestoreEnded
    /\ Len(pkgcall.pkgs) = 2
    /\ pkgcall.pkgs_failed_to_remove = <<pkgcall.pkgs[1]>>
    /\ pkgcall.pkgs_removed = <<pkgcall.pkgs[2]>>
    /\ Len(removed_pkgs) = 2
    /\ ~HasBackup(removed_pkgs[1])
    /\ HasBackup(removed_pkgs[2])
    /\ Len(SelectSeq(pkgcall.events, IsInstallEvent)) = 1

(***************************************************************************)
(* C14: restore_pkgs() never raises: whatever the removal commands and the *)
(* install command answer, the call returns normally after its three steps *)
(* (removal of the installed packages, clean-up of the orphaned folders,   *)
(* reinstallation of the removed packages) have all run.                   *)
(***************************************************************************)
C14_RestoreNeverRaises ==
    pkgcall.op = "restore_pkgs" =>
        /\ pkgcall.raised = "none"
        /\ pkgcall.rkind # "raise"
        /\ ~\E i \in 1..Len(pkgcall.events) : pkgcall.events[i].kind = "critical"
        /\ pkgcall.pc = "done" =>
               LET ev == pkgcall.events
                   o == OrphansAt(ev)
               IN  /\ pkgcall.rkind = "None"
                   /\ Len(SelectSeq(ev, IsRemovalEvent)) = Len(pkgcall.pkgs)
                   /\ Len(pkgcall.pkgs_failed_to_remove) + Len(pkgcall.pkgs_removed)
                         = Len(pkgcall.pkgs)
                   /\ o # 0
                   /\ \E j \in (o + 1)..Len(ev) :
                          IsInstallEvent(ev[j]) \/ ev[j].kind = "info"

\* restore_pkgs() has returned although a removal command and the install command
\* both failed
C14_Witness ==
    /\ RestoreEnded
    /\ pkgcall.raised = "none"
    /\ pkgcall.pkgs_failed_to_remove # <<>>
    /\ IsInstallEvent(pkgcall.events[Len(pkgcall.events) - 1])
    /\ Last(pkgcall.events).kind = "warning"
    /\ installed_pkgs = pkgcall.pkgs

(***************************************************************************)
(* Vocabulary of the backup properties                                     *)
(***************************************************************************)
IsDownloadEvent(e) == e.kind = "download_pkg"

\* a call of backup_and_track_removed_pkg() has returned
BackupEnded == pkgcall.op = "backup_and_track_removed_pkg" /\ pkgcall.pc = "done"

Downloads == SelectSeq(pkgcall.events, IsDownloadEvent)

(***************************************************************************)
(* C15, as the specification states it: the backup is downloaded with the  *)
(* hardcoded repository files whenever the host has no internet access or  *)
(* is an EUS system, and with the caller's reposdir otherwise.             *)
(***************************************************************************)
C15_HardcodedWhenOfflineOrEus ==
    BackupEnded =>
        \A i \in 1..Len(Downloads) :
            Downloads[i].reposdir =
                IF ~pkgcall.system_info.has_internet_access \/ pkgcall.system_info.eus_system
                THEN <<HardcodedRepofilesDir>>
                ELSE pkgcall.reposdir

(***************************************************************************)
(* C15, amended: when the backup directory is accessible the package is    *)
(* downloaded once; without internet access download_pkg() gets no         *)
(* reposdir at all, with internet access it gets the hardcoded repository  *)
(* files when the host is an EUS system with the id "centos" and the       *)
(* caller's reposdir otherwise.                                            *)
(***************************************************************************)
C15_ReposdirOfTheDownload ==
    BackupEnded =>
        /\ pkgcall.answer # "nodir" => Len(Downloads) = 1
        /\ \A i \in 1..Len(Downloads) :
               /\ Downloads[i].arg = pkgcall.pkgs[1]
               /\ Downloads[i].reposdir =
                     IF ~pkgcall.system_info.has_internet_access
                     THEN <<>>
                     ELSE IF pkgcall.system_info.eus_system
                             /\ pkgcall.system_info.id = "centos"
                          THEN <<HardcodedRepofilesDir>>
                          ELSE pkgcall.reposdir

\* an EUS CentOS host with internet access: the caller's reposdir is replaced by
\* the hardcoded repository files
C15_Witness ==
    /\ BackupEnded
    /\ pkgcall.system_info.eus_system
    /\ pkgcall.system_info.id = "centos"
    /\ pkgcall.system_info.has_internet_access
    /\ pkgcall.reposdir = <<"custom_reposdir">>
    /\ Len(Downloads) = 1
    /\ Downloads[1].reposdir = <<HardcodedRepofilesDir>>

(***************************************************************************)
(* C16: when the backup directory is not accessible, backup() downloads    *)
(* nothing, leaves the path None, warns and does not raise, and            *)
(* backup_and_track_removed_pkg() still appends the package to             *)
(* removed_pkgs; restore_pkgs() passes none of the packages without a path *)
(* to the install command and warns about each of them.                    *)
(***************************************************************************)
C16_InaccessibleBackupDir ==
    /\ (BackupEnded /\ pkgcall.answer = "nodir") =>
           /\ Downloads = <<>>
           /\ \E i \in 1..Len(pkgcall.events) :
                  /\ pkgcall.events[i].kind = "warning"
                  /\ pkgcall.events[i].arg = pkgcall.pkgs[1]
           /\ pkgcall.raised = "none"
           /\ removed_pkgs # <<>>
           /\ Last(removed_pkgs) = [name |-> pkgcall.pkgs[1], path |-> <<>>]
    /\ RestoreEnded =>
           LET after == SubSeq(pkgcall.events, OrphansAt(pkgcall.events) + 1,
                               Len(pkgcall.events))
               installs == SelectSeq(after, IsInstallEvent)
               unsaved == {i \in 1..Len(removed_pkgs) : ~HasBackup(removed_pkgs[i])}
           IN  /\ pkgcall.raised = "none"
               /\ \A i \in unsaved :
                      \E j \in 1..Len(after) :
                         /\ after[j].kind = "warning"
                         /\ after[j].arg = removed_pkgs[i].name
               /\ \A j \in 1..Len(installs) :
                      Len(installs[j].arg) = Len(removed_pkgs) - Cardinality(unsaved)
               /\ unsaved = 1..Len(removed_pkgs) => installs = <<>>

\* backup_and_track_removed_pkg() has returned from a call that found no backup
\* directory: the package is tracked, after one that has a backup, without a path
C16_Witness ==
    /\ BackupEnded
    /\ pkgcall.answer = "nodir"
    /\ pkgcall.raised = "none"
    /\ Len(removed_pkgs) = 2
    /\ HasBackup(removed_pkgs[1])
    /\ removed_pkgs[2] = [name |-> pkgcall.pkgs[1], path |-> <<>>]
    /\ Downloads = <<>>

(***************************************************************************)
(* Vocabulary of the action properties                                     *)
(***************************************************************************)
\* the actions the orchestrator has started
Started == running \cup Range(completed)

\* d had finished when action was started
FinishedBefore(d, action) ==
    \E i \in 1..Len(completed) :
        /\ completed[i] = d
        /\ \A j \in 1..i : completed[j] # action

\* the latest run() met a failure of one of its calls
RunFailed == last_run.action # "none" /\ last_run.calls # <<>> /\ last_run.failure.at > 0

\* the failures the two actions catch one by one
Anticipated(action, kind) ==
    \/ action = "PRE_SUBSCRIPTION" /\ kind = "UnregisterError"
    \/ action = "SUBSCRIBE_SYSTEM" /\ kind \in {"ValueError", "IOError"}

(***************************************************************************)
(* C17: the orchestrator runs at most one action at a time, runs no action *)
(* twice and starts an action only when every dependency it declares has   *)
(* finished: PRE_SUBSCRIPTION only after REMOVE_EXCLUDED_PACKAGES,          *)
(* SUBSCRIBE_SYSTEM only after REMOVE_REPOSITORY_FILES_PACKAGES and         *)
(* PRE_SUBSCRIPTION.                                                       *)
(***************************************************************************)
C17_DependenciesFirst ==
    /\ Cardinality(running) <= 1
    /\ running \cap Range(completed) = {}
    /\ \A i, j \in 1..Len(completed) : i # j => completed[i] # completed[j]
    /\ \A action \in Started :
          \A d \in Range(Dependencies(action)) : FinishedBefore(d, action)
    /\ "PRE_SUBSCRIPTION" \in Started =>
          FinishedBefore("REMOVE_EXCLUDED_PACKAGES", "PRE_SUBSCRIPTION")
    /\ "SUBSCRIBE_SYSTEM" \in Started =>
          /\ FinishedBefore("REMOVE_REPOSITORY_FILES_PACKAGES", "SUBSCRIBE_SYSTEM")
          /\ FinishedBefore("PRE_SUBSCRIPTION", "SUBSCRIBE_SYSTEM")

\* SUBSCRIBE_SYSTEM is running, after the three actions it depends on
C17_Witness ==
    /\ running = {"SUBSCRIBE_SYSTEM"}
    /\ Len(completed) = 3
    /\ completed[3] = "PRE_SUBSCRIPTION"

(***************************************************************************)
(* C18: run() lets no failure escape; a failure the action does not        *)
(* anticipate, SystemExit included, leaves one result, set once, of level  *)
(* ERROR with the id UNKNOWN_ERROR and the text of the failure as its      *)
(* diagnosis.                                                              *)
(***************************************************************************)
C18_UnknownErrorResult ==
    /\ last_run.escaped = "none"
    /\ (RunFailed /\ ~Anticipated(last_run.action, last_run.failure.kind)) =>
          /\ last_run.set_results = 1
          /\ last_run.result.level = "ERROR"
          /\ last_run.result.id = "UNKNOWN_ERROR"
          /\ last_run.result.diagnosis = <<last_run.failure.text>>
          /\ last_run.result.title = "Unknown error"
          /\ last_run.result.description = "The cause of this error is unknown"

\* install_gpg_keys() raised SystemExit("Exiting...") in PreSubscription.run()
C18_Witness ==
    /\ last_run.action = "PRE_SUBSCRIPTION"
    /\ ~last_run.no_rhsm
    /\ last_run.failure = [at |-> 1, kind |-> "SystemExit", text |-> "Exiting..."]
    /\ last_run.calls = <<"install_gpg_keys">>
    /\ last_run.result.id = "UNKNOWN_ERROR"
    /\ last_run.result.diagnosis = <<"Exiting...">>

(***************************************************************************)
(* C19: with tool_opts.no_rhsm set, the run() of PreSubscription and of    *)
(* SubscribeSystem makes none of its calls, records exactly one message,   *)
(* a WARNING with the skip id of the action, and leaves a SUCCESS result.  *)
(***************************************************************************)
C19_NoRhsmSkips ==
    (last_run.no_rhsm /\ last_run.action \in {"PRE_SUBSCRIPTION", "SUBSCRIBE_SYSTEM"}) =>
        /\ last_run.calls = <<>>
        /\ Cardinality(last_run.messages) = 1
        /\ \A m \in last_run.messages :
               /\ m.level = "WARNING"
               /\ m.id = IF last_run.action = "PRE_SUBSCRIPTION"
                         THEN "PRE_SUBSCRIPTION_CHECK_SKIP"
                         ELSE "SUBSCRIPTION_CHECK_SKIP"
               /\ m.diagnosis = <<>>
               /\ m.remediation = <<>>
        /\ last_run.result.level = "SUCCESS"
        /\ last_run.set_results = 0

\* PreSubscription.run() with no_rhsm set has recorded its skip message
C19_Witness ==
    /\ last_run.action = "PRE_SUBSCRIPTION"
    /\ last_run.no_rhsm
    /\ last_run.messages = {PreSubscriptionSkipMessage}
    /\ last_run.calls = <<>>
    /\ completed = <<"REMOVE_EXCLUDED_PACKAGES", "PRE_SUBSCRIPTION">>

(***************************************************************************)
(* C20: when pop_all(), called without the private _honor_partitions,      *)
(* returns, the journal is empty, so the controller knows no               *)
(* RestorableChange any more, and the returned list holds every            *)
(* RestorableChange the journal held, in the order their restore() was     *)
(* called, those whose restore() raised included.                          *)
(***************************************************************************)
C20_PopAllReturnsAllKnown ==
    (last.op = "pop_all" /\ ~last.honor /\ last.rkind = "list") =>
        /\ restorables = last.post
        /\ Reals(restorables) = <<>>
        /\ restorables = <<>>
        /\ Len(last.ret) = Len(Reals(last.pre))
        /\ Len(last.ret) = Len(last.restores)
        /\ \A i \in 1..Len(last.ret) :
               /\ last.ret[i] = last.restores[i].obj
               /\ last.ret[i] = Reals(last.pre)[Len(last.ret) + 1 - i]

\* pop_all() has returned both entries of a journal although restore() of the
\* newer one raised
C20_Witness ==
    /\ last.op = "pop_all"
    /\ ~last.honor
    /\ last.rkind = "list"
    /\ Len(Reals(last.pre)) = 2
    /\ partition \in Range(last.pre)
    /\ last.restores[1].outcome # "ok"
    /\ last.restores[2].outcome = "ok"
    /\ Len(last.ret) = 2
    /\ restorables = <<>>

(***************************************************************************)
(* Vocabulary of the later BackupController properties                     *)
(***************************************************************************)
\* how often x occurs in seq
Count(seq, x) == Cardinality({i \in 1..Len(seq) : seq[i] = x})

\* a journal that is not empty and holds markers only
OnlyMarkers(s) == s # <<>> /\ \A i \in 1..Len(s) : s[i] = partition

(***************************************************************************)
(* C21: on a journal that holds markers only, pop_all() fails with         *)
(* IndexError and leaves the journal, markers included, as it was, while   *)
(* pop() takes the markers off one by one, then fails with IndexError and  *)
(* leaves the journal empty.                                               *)
(***************************************************************************)
C21_MarkersOnlyPopVersusPopAll ==
    OnlyMarkers(last.pre) =>
        /\ last.op = "pop_all" =>
               /\ last.raised = "IndexError"
               /\ last.post = last.pre
               /\ restorables = last.pre
        /\ last.op = "pop" =>
               /\ last.raised = "IndexError"
               /\ last.post = <<>>
               /\ restorables = <<>>

\* pop_all() has failed on two markers and left them, the pop() after it has
\* failed and removed them
C21_Witness ==
    /\ prev.op = "pop_all"
    /\ prev.raised = "IndexError"
    /\ prev.pre = <<partition, partition>>
    /\ prev.post = prev.pre
    /\ last.op = "pop"
    /\ last.pre = prev.post
    /\ last.raised = "IndexError"
    /\ restorables = <<>>

(***************************************************************************)
(* C22: when enable() raises in push(r), push() raises the same failure    *)
(* and the journal stays as it was; the pop, pop_all or pop_to_partition   *)
(* that follows calls restore() on an object only as often as the journal  *)
(* held it before that push, and no call ever calls restore() on an object *)
(* more often than the journal holds it.                                   *)
(***************************************************************************)
C22_FailedEnableNotTracked ==
    /\ (/\ last.op = "push"
        /\ last.enables # <<>>
        /\ last.enables[1].outcome # "ok") =>
           /\ last.raised = last.enables[1].outcome
           /\ last.rkind = "raise"
           /\ last.post = last.pre
           /\ restorables = last.pre
    /\ (/\ prev.op = "push"
        /\ prev.raised \in Outcomes \ {"ok"}
        /\ IsPop(last.op)) =>
           /\ last.pre = prev.pre
           /\ \A r \in RestorableChange :
                  Count(Objs(last.restores), r) <= Count(prev.pre, r)
    /\ IsPop(last.op) =>
           \A r \in RestorableChange :
              Count(Objs(last.restores), r) <= Count(last.pre, r)

\* push() of an object has failed in enable() on a journal that holds the other
\* object only; the pop_all() after it has restored that other object alone
C22_Witness ==
    /\ prev.op = "push"
    /\ prev.raised = "Exception"
    /\ prev.pre = <<"r1">>
    /\ prev.post = <<"r1">>
    /\ last.op = "pop_all"
    /\ Objs(last.restores) = <<"r1">>
    /\ enabled["r2"] = FALSE

(***************************************************************************)
(* C23: when restore() of the entry pop() found raises, pop() raises the   *)
(* same failure; that entry is off the journal, restore() was called on it *)
(* alone, and the entries below it are still in the journal.               *)
(***************************************************************************)
C23_PopPropagatesRestoreFailure ==
    (/\ last.op = "pop"
     /\ last.restores # <<>>
     /\ last.restores[1].outcome # "ok") =>
        LET k == TopReal(last.pre)
        IN  /\ last.raised = last.restores[1].outcome
            /\ last.rkind = "raise"
            /\ last.ret = <<>>
            /\ Len(last.restores) = 1
            /\ last.restores[1].obj = last.pre[k]
            /\ last.post = Below(last.pre, k)
            /\ restorables = Below(last.pre, k)

\* restore() of the top entry has raised in pop(); the two entries below it are
\* still in the journal
C23_Witness ==
    /\ last.op = "pop"
    /\ last.raised = "SystemExit"
    /\ Len(last.pre) = 3
    /\ last.pre[3] # partition
    /\ Len(restorables) = 2
    /\ restorables = Below(last.pre, 3)
    /\ Reals(restorables) # <<>>

(***************************************************************************)
(* C24: pop_to_partition() on a journal of real entries without a marker   *)
(* restores every entry, newest first, and leaves the journal empty, so    *)
(* that the pop_all() after it fails with IndexError; on an empty journal  *)
(* or one of markers only pop_to_partition() itself fails with IndexError. *)
(***************************************************************************)
C24_PopToPartitionWithoutMarker ==
    /\ (/\ last.op = "pop_to_partition"
        /\ last.pre # <<>>
        /\ TopMarker(last.pre) = 0) =>
           /\ last.raised = "none"
           /\ Objs(last.restores) = Reverse(last.pre)
           /\ last.post = <<>>
           /\ restorables = <<>>
    /\ (/\ last.op = "pop_to_partition"
        /\ Reals(last.pre) = <<>>) =>
           /\ last.raised = "IndexError"
           /\ last.restores = <<>>
    /\ (/\ prev.op = "pop_to_partition"
        /\ prev.pre # <<>>
        /\ TopMarker(prev.pre) = 0
        /\ last.op = "pop_all") =>
           /\ last.pre = <<>>
           /\ last.raised = "IndexError"
           /\ last.restores = <<>>

\* pop_to_partition() has restored a journal of three real entries and the
\* pop_all() after it has failed
C24_Witness ==
    /\ prev.op = "pop_to_partition"
    /\ Len(prev.pre) = 3
    /\ TopMarker(prev.pre) = 0
    /\ prev.restored = Reverse(prev.pre)
    /\ prev.raised = "none"
    /\ last.op = "pop_all"
    /\ last.raised = "IndexError"

(***************************************************************************)
(* C25: the journal keeps an object as often as it was pushed: push() of   *)
(* an object the journal already holds calls enable() on it again and adds *)
(* another entry, and pop_all() calls restore() on an object, and returns  *)
(* it, as often as the journal held it.                                    *)
(***************************************************************************)
C25_NoDeduplication ==
    /\ (/\ last.op = "push"
        /\ last.arg \in RestorableChange
        /\ Count(last.pre, last.arg) > 0) =>
           /\ Len(last.enables) = 1
           /\ last.enables[1].obj = last.arg
           /\ last.raised = "none" =>
                  /\ last.post = Append(last.pre, last.arg)
                  /\ Count(restorables, last.arg) = Count(last.pre, last.arg) + 1
    /\ (/\ last.op = "pop_all"
        /\ ~last.honor
        /\ last.rkind = "list") =>
           \A r \in RestorableChange :
              /\ Count(Objs(last.restores), r) = Count(last.pre, r)
              /\ Count(last.ret, r) = Count(last.pre, r)

\* pop_all() on a journal that held the same object twice has restored it twice
\* and returned it twice
C25_Witness ==
    /\ last.op = "pop_all"
    /\ ~last.honor
    /\ last.pre = <<"r1", "r1">>
    /\ Objs(last.restores) = <<"r1", "r1">>
    /\ last.ret = <<"r1", "r1">>
    /\ restorables = <<>>

(***************************************************************************)
(* C26: no step of the controller of the changed packages, restore_pkgs()  *)
(* included, takes an entry off installed_pkgs or removed_pkgs.  The       *)
(* reinstallation in restore_pkgs() appends the NVRA of every path it      *)
(* installed to installed_pkgs when the install command succeeds and       *)
(* nothing when it fails or has nothing to install, and each call of       *)
(* restore_pkgs() targets the whole of installed_pkgs, the packages        *)
(* reinstalled by an earlier call included.                                *)
(***************************************************************************)
\* short is the beginning of long
IsPrefix(short, long) ==
    Len(short) <= Len(long) /\ SubSeq(long, 1, Len(short)) = short

TrackingListsOnlyGrow ==
    /\ IsPrefix(installed_pkgs, installed_pkgs')
    /\ IsPrefix(removed_pkgs, removed_pkgs')
    /\ (pkgcall.op = "restore_pkgs" /\ pkgcall.pc = "install" /\ pkgcall'.pc = "done") =>
          LET kept == SelectSeq(removed_pkgs, HasBackup)
              succeeded == kept # <<>> /\ IsInstallEvent(Last(pkgcall'.events))
          IN  installed_pkgs' =
                 installed_pkgs \o
                 (IF succeeded THEN [i \in 1..Len(kept) |-> kept[i].path[1].file]
                  ELSE <<>>)
    /\ (pkgcall.pc = "idle" /\ pkgcall'.op = "restore_pkgs") =>
          pkgcall'.pkgs = installed_pkgs

C26_TrackingListsOnlyGrow == [][TrackingListsOnlyGrow]_vars

\* restore_pkgs() has ended with installed_pkgs holding its two targets and, after
\* them, the package it reinstalled, which was the second target already
C26_Witness ==
    /\ RestoreEnded
    /\ Len(pkgcall.pkgs) = 2
    /\ pkgcall.pkgs[1] # pkgcall.pkgs[2]
    /\ Len(removed_pkgs) = 1
    /\ HasBackup(removed_pkgs[1])
    /\ removed_pkgs[1].name = pkgcall.pkgs[2]
    /\ installed_pkgs = pkgcall.pkgs \o <<pkgcall.pkgs[2]>>

====
